---- MODULE Spec2Model ----
(***************************************************************************)
(* A model of aimakerspace.vectordatabase.VectorDatabase: the in-memory    *)
(* vector store with per-key metadata, brute-force similarity search and   *)
(* the batched build from texts.                                           *)
(*                                                                         *)
(* Python dicts are modelled as insertion-ordered sequences of entries,    *)
(* metadata dicts as objects on a heap (the store keeps references to the  *)
(* mappings its callers pass in), scores as exact values of the cosine     *)
(* with NaN for a zero norm, and sorted() as CPython's list sort.          *)
(*                                                                         *)
(* With it: CharacterTextSplitter of aimakerspace.text_utils, the Flask    *)
(* RAG app of 03_End-to-End_RAG/app.py, which splits a document and builds *)
(* a VectorDatabase from its chunks, and the LangGraph agent of            *)
(* 05_Our_First_Agent_with_LangGraph/backend/agent_setup.py.               *)
(***************************************************************************)
EXTENDS Integers, Sequences, FiniteSets, TLC

(***************************************************************************)
(* Bounds of the model.                                                    *)
(***************************************************************************)
MaxK == 4          \* search is called with k in 0..MaxK
MaxTexts == 2      \* longest list_of_text of one abuild_from_list call
MaxTextLen == 6    \* longest text given to CharacterTextSplitter.split
MaxChunk == 4      \* largest chunk_size and chunk_overlap of a splitter
MaxMessages == 6   \* the agent node runs while there are fewer messages than this

NoVector == <<>>

(***************************************************************************)
(* Python values of metadata fields and of filter arguments.               *)
(***************************************************************************)
PyNone == [t |-> "None"]
PyInt(n) == [t |-> "int", v |-> n]
PyLambda(name) == [t |-> "function", name |-> name]
PyDict(ref) == [t |-> "dict", ref |-> ref]
PyList(items) == [t |-> "list", items |-> items]

Fields == {"type", "page"}
FieldValues == [type |-> {PyInt(1)}, page |-> {PyInt(1), PyInt(3)}]

\* A dict object's contents: a function from the fields it holds.
EmptyDict == [f \in {} |-> PyNone]
Dicts == UNION {{d \in [D -> UNION {FieldValues[f] : f \in Fields}] :
                    \A f \in D : d[f] \in FieldValues[f]} : D \in SUBSET Fields}

\* Filter arguments: per field a literal (an int or None) or a predicate.
FilterValues == {PyInt(1), PyInt(3), PyNone, PyLambda("lambda x: x <= 2")}
Filters == UNION {[D -> FilterValues] : D \in SUBSET Fields}

VARIABLES
    vectors,          \* self.vectors: ordered entries [key, val |-> vector]
    metadata,         \* self.metadata: ordered entries [key, val |-> ref]
    heap,             \* the dict objects self.metadata refers to: ref -> contents
    embedding_model,  \* self.embedding_model: "None" or "model"
    task,             \* the abuild_from_list coroutine: idle or awaiting the provider
    last,             \* the step taken last: the call, its arguments and outcome
    inserted,         \* history: key -> the vector of the most recent insert
    vector_db,        \* app.py: the global vector_db, None or a VectorDatabase
    chat_model,       \* app.py: the global chat_model, "None" or "ChatOpenAI"
    pdf_text_chunks,  \* app.py: the global pdf_text_chunks
    response,         \* app.py: the response to the request handled last
    env,              \* agent_setup.py: the API keys set in the environment
    messages,         \* agent_setup.py: state["messages"] of the agent run
    node,             \* agent_setup.py: the node of the graph that runs next
    splitter,         \* text_utils.py: a CharacterTextSplitter, or None
    split_text,       \* text_utils.py: the argument of the last split
    chunks            \* text_utils.py: the result of the last split

storeVars == <<vectors, metadata, heap, embedding_model, task, last, inserted>>
appVars == <<vector_db, chat_model, pdf_text_chunks, response>>
agentVars == <<env, messages, node>>
splitVars == <<splitter, split_text, chunks>>
vars == <<storeVars, appVars, agentVars, splitVars>>

(***************************************************************************)
(* dict: insertion-ordered, one entry per key.                             *)
(***************************************************************************)
DictKeys(d) == {d[i].key : i \in DOMAIN d}
DictHas(d, k) == \E i \in DOMAIN d : d[i].key = k
DictIndex(d, k) == CHOOSE i \in DOMAIN d : d[i].key = k /\ \A j \in 1..(i - 1) : d[j].key # k
DictGet(d, k) == d[DictIndex(d, k)].val

\* A faulty d[k] = v: always a new entry, as a list of pairs would do it.
DictSetAppend(d, k, v) == Append(d, [key |-> k, val |-> v])

\* A faulty d[k] = v: an existing key is taken out and put at the end, as
\* del d[k]; d[k] = v would
DictSetMoveToEnd(d, k, v) ==
    Append(SelectSeq(d, LAMBDA e : e.key # k), [key |-> k, val |-> v])

\* d[k] = v: the value of an existing key is replaced where it stands, a new
\* key goes to the end
DictSet(d, k, v) ==
    IF DictHas(d, k)
    THEN [d EXCEPT ![DictIndex(d, k)] = [key |-> k, val |-> v]]
    ELSE Append(d, [key |-> k, val |-> v])


(***************************************************************************)
(* The heap of metadata dict objects.  The store keeps the very mapping a  *)
(* caller passes to insert (a reference, not a copy), so two keys may      *)
(* share one object.  Object identities are kept up to renaming: after     *)
(* each step the objects no key and no pending call refers to are dropped  *)
(* and the others are numbered in order of first reference.                *)
(***************************************************************************)
NewRef(h) == CHOOSE r \in 1..(Cardinality(DOMAIN h) + 1) :
                 r \notin DOMAIN h /\ \A q \in 1..(r - 1) : q \in DOMAIN h

TaskRefs(tk) ==
    IF tk.pc = "awaiting" /\ tk.metadata_list.t = "list" THEN tk.metadata_list.items ELSE <<>>

RefSeq(md, tk) == [i \in DOMAIN md |-> md[i].val] \o TaskRefs(tk)

\* The new number of every referenced object: its rank by first reference.
Renumbering(rs) ==
    [r \in {rs[i] : i \in DOMAIN rs} |->
        LET first == CHOOSE i \in DOMAIN rs : rs[i] = r /\ \A j \in 1..(i - 1) : rs[j] # r
        IN  Cardinality({rs[j] : j \in 1..first})]

CanonMetadata(md, ren) ==
    [i \in DOMAIN md |-> [key |-> md[i].key, val |-> ren[md[i].val]]]

CanonTask(tk, ren) ==
    IF tk.pc = "awaiting" /\ tk.metadata_list.t = "list"
    THEN [tk EXCEPT !.metadata_list.items = [i \in DOMAIN @ |-> ren[@[i]]]]
    ELSE tk

CanonHeap(h, ren) ==
    [n \in 1..Cardinality(DOMAIN ren) |-> h[CHOOSE r \in DOMAIN ren : ren[r] = n]]

\* The contents of the metadata entry of key k in a store (its entry must exist).
MetaOf(md, h, k) == h[DictGet(md, k)]

(***************************************************************************)
(* cosine_similarity.  dot(a,b) / (|a| * |b|) is kept exactly, as          *)
(* sgn * sqrt(num / den) in lowest terms; a zero norm divides 0.0 by 0.0,  *)
(* which numpy evaluates to NaN.                                           *)
(***************************************************************************)
Dot(a, b) == a[1] * b[1] + a[2] * b[2]

RECURSIVE GCD(_, _)
GCD(m, n) == IF n = 0 THEN m ELSE GCD(n, m % n)

NaN == [sgn |-> 0, num |-> 0, den |-> 0]
IsNaN(x) == x.den = 0

\* A faulty cosine_similarity: the dot product alone, not normalised.
dot_similarity(vector_a, vector_b) ==
    LET d == Dot(vector_a, vector_b)
    IN  [sgn |-> IF d > 0 THEN 1 ELSE IF d < 0 THEN -1 ELSE 0,
         num |-> d * d, den |-> 1]

cosine_similarity(vector_a, vector_b) ==
    LET dot_product == Dot(vector_a, vector_b)
        norms2 == Dot(vector_a, vector_a) * Dot(vector_b, vector_b)
        g == GCD(dot_product * dot_product, norms2)
    IN  IF norms2 = 0 THEN NaN
        ELSE IF dot_product = 0 THEN [sgn |-> 0, num |-> 0, den |-> 1]
        ELSE [sgn |-> IF dot_product > 0 THEN 1 ELSE -1,
              num |-> (dot_product * dot_product) \div g,
              den |-> norms2 \div g]

\* float < and ==: every comparison with NaN is false
ScoreLT(x, y) == ~IsNaN(x) /\ ~IsNaN(y) /\ x.sgn * x.num * y.den < y.sgn * y.num * x.den
ScoreEQ(x, y) == ~IsNaN(x) /\ ~IsNaN(y) /\ x = y

(***************************************************************************)
(* sorted(scores, key=lambda x: x[1], reverse=True), as CPython sorts a    *)
(* list of fewer than 64 items: the list is reversed, its leading run is   *)
(* found (and reversed if strictly descending), the rest is put in place   *)
(* by binary insertion, and the list is reversed again.  All of it uses    *)
(* only < on the keys.                                                     *)
(***************************************************************************)
Reverse(s) == [i \in 1..Len(s) |-> s[Len(s) + 1 - i]]

RECURSIVE count_run(_, _, _)
count_run(s, i, descending) ==
    IF i > Len(s) THEN Len(s)
    ELSE IF descending
         THEN IF ScoreLT(s[i].score, s[i - 1].score)
              THEN count_run(s, i + 1, descending) ELSE i - 1
         ELSE IF ScoreLT(s[i].score, s[i - 1].score)
              THEN i - 1 ELSE count_run(s, i + 1, descending)

RECURSIVE bisect(_, _, _, _)
bisect(s, pivot, l, r) ==
    IF l >= r THEN l
    ELSE LET p == l + ((r - l) \div 2)
         IN  IF ScoreLT(pivot.score, s[p].score)
             THEN bisect(s, pivot, l, p) ELSE bisect(s, pivot, p + 1, r)

RECURSIVE binarysort(_, _)
binarysort(s, start) ==
    IF start > Len(s) THEN s
    ELSE LET pivot == s[start]
             l == bisect(s, pivot, 1, start)
         IN  binarysort([i \in 1..Len(s) |->
                            IF i < l \/ i > start THEN s[i]
                            ELSE IF i = l THEN pivot ELSE s[i - 1]],
                        start + 1)

list_sort(s) ==
    IF Len(s) < 2 THEN s
    ELSE LET descending == ScoreLT(s[2].score, s[1].score)
             n == count_run(s, 3, descending)
             run == IF descending
                    THEN [i \in 1..Len(s) |-> IF i <= n THEN s[n + 1 - i] ELSE s[i]]
                    ELSE s
         IN  binarysort(run, n + 1)

\* A faulty sorted(..., reverse=True): an ascending sort, reversed afterwards,
\* which turns the order of equal keys around.
sorted_then_reversed(s) == Reverse(list_sort(s))

sorted_reverse(s) == Reverse(list_sort(Reverse(s)))

\* A faulty s[:k]: one item too many.
SliceOneMore(s, k) == SubSeq(s, 1, IF k + 1 < Len(s) THEN k + 1 ELSE Len(s))

\* s[:k]
Slice(s, k) ==
    IF k >= 0
    THEN SubSeq(s, 1, IF k < Len(s) THEN k ELSE Len(s))
    ELSE SubSeq(s, 1, IF Len(s) + k > 0 THEN Len(s) + k ELSE 0)


(***************************************************************************)
(* The operations of VectorDatabase on a store                             *)
(* st = [vectors, metadata, heap, inserted].                               *)
(***************************************************************************)
Store == [vectors |-> vectors, metadata |-> metadata, heap |-> heap, inserted |-> inserted]

\* the history of inserts: key -> the vector inserted last
Record(h, key, vector) == [x \in DOMAIN h \cup {key} |-> IF x = key THEN vector ELSE h[x]]

\* A faulty insert: an existing key keeps its first vector (setdefault).
insert_keep_first(st, key, vector, md) ==
    [st EXCEPT !.vectors = IF DictHas(@, key) THEN @ ELSE DictSet(@, key, vector),
               !.metadata = IF md.t = "None" THEN @ ELSE DictSet(@, key, md.ref),
               !.inserted = Record(@, key, vector)]

\* A faulty insert: metadata given for a key that has some is merged into it.
insert_merge(st, key, vector, md) ==
    [st EXCEPT !.vectors = DictSet(@, key, vector),
               !.metadata = IF md.t = "None" \/ DictHas(@, key) THEN @
                            ELSE DictSet(@, key, md.ref),
               !.heap = IF md.t = "None" \/ ~DictHas(st.metadata, key) THEN @
                        ELSE [@ EXCEPT ![DictGet(st.metadata, key)] =
                                 [f \in DOMAIN @ \cup DOMAIN st.heap[md.ref] |->
                                     IF f \in DOMAIN st.heap[md.ref]
                                     THEN st.heap[md.ref][f] ELSE @[f]]],
               !.inserted = Record(@, key, vector)]

\* A faulty insert: the store keeps the entry inserted last and drops the
\* others.
insert_evict(st, key, vector, md) ==
    [st EXCEPT !.vectors = <<[key |-> key, val |-> vector]>>,
               !.metadata = IF md.t = "None" THEN @ ELSE DictSet(@, key, md.ref),
               !.inserted = Record(@, key, vector)]

\* insert(key, vector, metadata): md is PyNone or PyDict(ref) of an object on
\* the heap
insert(st, key, vector, md) ==
    [st EXCEPT !.vectors = DictSet(@, key, vector),
               !.metadata = IF md.t = "None" THEN @ ELSE DictSet(@, key, md.ref),
               !.inserted = Record(@, key, vector)]

\* A faulty insert_with_metadata: the metadata are assigned only if there are
\* any (if metadata:), so that a call without fields keeps the prior metadata.
insert_with_metadata_if_any(st, key, vector, kwargs) ==
    LET r == NewRef(st.heap)
    IN  IF kwargs = EmptyDict
        THEN [st EXCEPT !.vectors = DictSet(@, key, vector),
                        !.inserted = Record(@, key, vector)]
        ELSE [st EXCEPT !.vectors = DictSet(@, key, vector),
                        !.metadata = DictSet(@, key, r),
                        !.heap = [x \in DOMAIN @ \cup {r} |-> IF x = r THEN kwargs ELSE @[x]],
                        !.inserted = Record(@, key, vector)]

\* insert_with_metadata(key, vector, **metadata): the keyword arguments
\* arrive as a new dict
insert_with_metadata(st, key, vector, kwargs) ==
    LET r == NewRef(st.heap)
    IN  [st EXCEPT !.vectors = DictSet(@, key, vector),
                   !.metadata = DictSet(@, key, r),
                   !.heap = [x \in DOMAIN @ \cup {r} |-> IF x = r THEN kwargs ELSE @[x]],
                   !.inserted = Record(@, key, vector)]

\* dict.update(other)
DictUpdate(d, other) ==
    [f \in DOMAIN d \cup DOMAIN other |-> IF f \in DOMAIN other THEN other[f] ELSE d[f]]

\* self.metadata[key] of a defaultdict(dict): a missing key gets a new empty dict
DefaultGet(st, key) ==
    IF DictHas(st.metadata, key) THEN st
    ELSE LET r == NewRef(st.heap)
         IN  [st EXCEPT !.metadata = DictSet(@, key, r),
                        !.heap = [x \in DOMAIN @ \cup {r} |-> IF x = r THEN EmptyDict ELSE @[x]]]

\* A faulty update_metadata: the stored mapping is replaced, not merged into.
update_metadata_replace(st, key, partial) ==
    LET st1 == DefaultGet(st, key)
        r == DictGet(st1.metadata, key)
    IN  [st1 EXCEPT !.heap[r] = partial]

\* update_metadata(key, metadata), for a key in self.vectors
update_metadata(st, key, partial) ==
    LET st1 == DefaultGet(st, key)
        r == DictGet(st1.metadata, key)
    IN  [st1 EXCEPT !.heap[r] = DictUpdate(@, partial)]

\* metadata.get(k): None for a missing field
FieldGet(d, k) == IF k \in DOMAIN d THEN d[k] ELSE PyNone

\* ==, on the values of the model: ints, None and function objects
PyEq(x, y) == x = y

\* all(metadata.get(k) == v for k, v in filters.items())
Matches(d, filters) == \A k \in DOMAIN filters : PyEq(FieldGet(d, k), filters[k])

RECURSIVE filter_loop(_, _, _, _)
filter_loop(st, filters, i, matching_keys) ==
    IF i > Len(st.metadata) THEN matching_keys
    ELSE filter_loop(st, filters, i + 1,
                     IF Matches(st.heap[st.metadata[i].val], filters)
                     THEN Append(matching_keys, st.metadata[i].key)
                     ELSE matching_keys)

\* filter_by_metadata(**filters)
filter_by_metadata(st, filters) == filter_loop(st, filters, 1, <<>>)

\* A faulty get_metadata: a key without an entry gets a mapping of every field
\* to None instead of the empty mapping.
get_metadata_none_fields(st, key) ==
    IF DictHas(st.metadata, key) THEN MetaOf(st.metadata, st.heap, key)
    ELSE [f \in Fields |-> PyNone]

\* self.metadata.get(key, {})
get_metadata(st, key) ==
    IF DictHas(st.metadata, key) THEN MetaOf(st.metadata, st.heap, key) ELSE EmptyDict

\* A faulty search: the first k entries are taken before they are sorted.
search_truncate_first(st, query_vector, k, include_metadata) ==
    LET scores == [i \in DOMAIN st.vectors |->
                      [key |-> st.vectors[i].key,
                       score |-> cosine_similarity(query_vector, st.vectors[i].val)]]
        results == sorted_reverse(Slice(scores, k))
    IN  IF include_metadata
        THEN [i \in DOMAIN results |->
                 [key |-> results[i].key, score |-> results[i].score,
                  metadata |-> get_metadata(st, results[i].key)]]
        ELSE results

\* search(query_vector, k, cosine_similarity, include_metadata)
search(st, query_vector, k, include_metadata) ==
    LET scores == [i \in DOMAIN st.vectors |->
                      [key |-> st.vectors[i].key,
                       score |-> cosine_similarity(query_vector, st.vectors[i].val)]]
        results == Slice(sorted_reverse(scores), k)
    IN  IF include_metadata
        THEN [i \in DOMAIN results |->
                 [key |-> results[i].key, score |-> results[i].score,
                  metadata |-> get_metadata(st, results[i].key)]]
        ELSE results

\* A faulty search_by_text: with return_as_text the texts are the first k keys
\* of self.vectors, in the order of insertion, not those of the results.
search_by_text_store_order(st, query_vector, k, return_as_text, include_metadata) ==
    LET results == search(st, query_vector, k, include_metadata)
    IN  IF return_as_text
        THEN [i \in DOMAIN results |-> st.vectors[i].key]
        ELSE results

\* search_by_text from the embedded query on: search, then result[0] of every
\* result if return_as_text
search_by_text(st, query_vector, k, return_as_text, include_metadata) ==
    LET results == search(st, query_vector, k, include_metadata)
    IN  IF return_as_text THEN [i \in DOMAIN results |-> results[i].key] ELSE results

\* np.array(embedding): an array of the items of the list
NpArray(embedding) == [i \in 1..Len(embedding) |-> embedding[i]]

\* metadata_list[i] if metadata_list and i < len(metadata_list) else None
\* (i from 1 here)
MetadataAt(metadata_list, i) ==
    IF metadata_list.t = "list" /\ Len(metadata_list.items) > 0
       /\ i <= Len(metadata_list.items)
    THEN PyDict(metadata_list.items[i]) ELSE PyNone

\* A faulty loop: the metadata are taken from the end of metadata_list.
RECURSIVE abuild_loop_reversed(_, _, _, _, _)
abuild_loop_reversed(st, list_of_text, embeddings, metadata_list, i) ==
    IF i > Len(list_of_text) \/ i > Len(embeddings) THEN st
    ELSE LET md == IF metadata_list.t = "list" /\ i <= Len(metadata_list.items)
                   THEN PyDict(metadata_list.items[Len(metadata_list.items) + 1 - i])
                   ELSE PyNone
         IN  abuild_loop_reversed(insert(st, list_of_text[i], NpArray(embeddings[i]), md),
                                  list_of_text, embeddings, metadata_list, i + 1)

\* A faulty loop: a text without a metadata entry is inserted with a new empty
\* mapping instead of None.
RECURSIVE abuild_loop_empty_dict(_, _, _, _, _)
abuild_loop_empty_dict(st, list_of_text, embeddings, metadata_list, i) ==
    IF i > Len(list_of_text) \/ i > Len(embeddings) THEN st
    ELSE LET md == MetadataAt(metadata_list, i)
             st1 == IF md.t = "None"
                    THEN insert_with_metadata(st, list_of_text[i], NpArray(embeddings[i]),
                                              EmptyDict)
                    ELSE insert(st, list_of_text[i], NpArray(embeddings[i]), md)
         IN  abuild_loop_empty_dict(st1, list_of_text, embeddings, metadata_list, i + 1)

\* the loop of abuild_from_list over zip(list_of_text, embeddings), from item i
RECURSIVE abuild_loop(_, _, _, _, _)
abuild_loop(st, list_of_text, embeddings, metadata_list, i) ==
    IF i > Len(list_of_text) \/ i > Len(embeddings) THEN st
    ELSE LET md == MetadataAt(metadata_list, i)
         IN  abuild_loop(insert(st, list_of_text[i], NpArray(embeddings[i]), md),
                         list_of_text, embeddings, metadata_list, i + 1)


(***************************************************************************)
(* The embedding provider (aimakerspace.openai_utils.embedding): one       *)
(* vector per text, in the order of the texts; which vectors, among the    *)
(* answers it can give, is up to the provider.                             *)
(***************************************************************************)
RECURSIVE SeqsOf(_, _)
SeqsOf(S, n) == IF n = 0 THEN {<<>>}
                ELSE {Append(s, x) : s \in SeqsOf(S, n - 1), x \in S}

async_get_embeddings(list_of_text, answers) ==
    {e \in answers : Len(e) = Len(list_of_text)}

\* get_embedding(text): one vector, which one is up to the provider
get_embedding(text, answers) == answers

\* The failures of a provider call: an error of the provider, or the
\* cancellation of the awaiting task.
ProviderErrors == {"RateLimitError", "CancelledError"}

\* One call of the provider, as the store makes it.
ProviderCall(method, arg) == [method |-> method, arg |-> arg]

(***************************************************************************)
(* State after construction: VectorDatabase(embedding_model).              *)
(***************************************************************************)
Idle == [pc |-> "idle", list_of_text |-> <<>>, metadata_list |-> PyNone]

InitStore ==
    /\ vectors = <<>>
    /\ metadata = <<>>
    /\ heap = [r \in {} |-> EmptyDict]
    /\ embedding_model \in {"None", "model"}
    /\ task = Idle
    /\ last = [op |-> "__init__"]
    /\ inserted = [k \in {} |-> NoVector]

\* app.py as loaded: no documents; chat_model is None when ChatOpenAI raised
\* ValueError for a missing key
InitApp ==
    /\ vector_db = PyNone
    /\ chat_model \in {"None", "ChatOpenAI"}
    /\ pdf_text_chunks = <<>>
    /\ response = [route |-> "none"]

\* the environment of agent_setup.py and a graph that has not been invoked
APIKeys == {"OPENAI_API_KEY", "TAVILY_API_KEY"}

InitAgent ==
    /\ env \in SUBSET APIKeys
    /\ messages = <<>>
    /\ node = "idle"

\* no CharacterTextSplitter constructed
InitSplitter ==
    /\ splitter = PyNone
    /\ split_text = <<>>
    /\ chunks = <<>>

\* the store alone: the app without a chat model, no API key, no agent run
Init ==
    /\ InitStore
    /\ InitApp /\ chat_model = "None"
    /\ InitAgent /\ env = {}
    /\ InitSplitter

\* The store after a step, with the heap in canonical form.
Commit(st, tk) ==
    LET ren == Renumbering(RefSeq(st.metadata, tk))
    IN  /\ vectors' = st.vectors
        /\ metadata' = CanonMetadata(st.metadata, ren)
        /\ heap' = CanonHeap(st.heap, ren)
        /\ task' = CanonTask(tk, ren)
        /\ inserted' = st.inserted

(***************************************************************************)
(* The dict arguments of a caller: no dict (None), a dict the caller has   *)
(* just built ("new", with its contents), or one it passed to the store    *)
(* before and still holds ("held", an object of the heap); in a list, also *)
(* the object of an earlier item ("same").                                 *)
(***************************************************************************)
NoDict == [t |-> "None"]
NewDict(c) == [t |-> "new", c |-> c]
HeldDict(r) == [t |-> "held", ref |-> r]
SameDict(i) == [t |-> "same", idx |-> i]

HeapAdd(h, c) == [x \in DOMAIN h \cup {NewRef(h)} |-> IF x \in DOMAIN h THEN h[x] ELSE c]

RECURSIVE AllocList(_, _, _)
AllocList(h, items, refs) ==
    IF Len(refs) = Len(items) THEN [heap |-> h, refs |-> refs]
    ELSE LET it == items[Len(refs) + 1]
         IN  IF it.t = "new"
             THEN AllocList(HeapAdd(h, it.c), items, Append(refs, NewRef(h)))
             ELSE IF it.t = "held"
             THEN AllocList(h, items, Append(refs, it.ref))
             ELSE AllocList(h, items, Append(refs, refs[it.idx]))

(***************************************************************************)
(* The steps: one per call of a public method; abuild_from_list, the one   *)
(* coroutine, takes a step up to its await and a step from it.             *)
(***************************************************************************)
Insert(key, vector, arg) ==
    LET st0 == IF arg.t = "new" THEN [Store EXCEPT !.heap = HeapAdd(@, arg.c)] ELSE Store
        md == IF arg.t = "None" THEN PyNone
              ELSE IF arg.t = "new" THEN PyDict(NewRef(heap)) ELSE PyDict(arg.ref)
    IN  /\ Commit(insert(st0, key, vector, md), task)
        /\ last' = [op |-> "insert", key |-> key, vector |-> vector,
                    metadata |-> IF arg.t = "None" THEN PyNone
                                 ELSE [t |-> "dict", c |-> st0.heap[md.ref]],
                    overwrote |-> DictHas(vectors, key) /\ DictGet(vectors, key) # vector,
                    had_metadata |-> DictHas(metadata, key)]
        /\ UNCHANGED embedding_model

InsertWithMetadata(key, vector, kwargs) ==
    /\ Commit(insert_with_metadata(Store, key, vector, kwargs), task)
    /\ last' = [op |-> "insert_with_metadata", key |-> key, vector |-> vector,
                metadata |-> kwargs,
                had_metadata |-> get_metadata(Store, key) # EmptyDict]
    /\ UNCHANGED embedding_model

\* A faulty update_metadata call: no check that the key has a vector.
UpdateMetadataUnchecked(key, partial) ==
    /\ Commit(update_metadata(Store, key, partial), task)
    /\ last' = [op |-> "update_metadata", key |-> key, metadata |-> partial,
                err |-> "None"]
    /\ UNCHANGED embedding_model

\* A faulty update_metadata call: self.metadata[key] is read before the check,
\* which gives a key without a vector an empty metadata entry.
UpdateMetadataReadFirst(key, partial) ==
    IF DictHas(vectors, key)
    THEN /\ Commit(update_metadata(Store, key, partial), task)
         /\ last' = [op |-> "update_metadata", key |-> key, metadata |-> partial,
                     err |-> "None"]
         /\ UNCHANGED embedding_model
    ELSE /\ Commit(DefaultGet(Store, key), task)
         /\ last' = [op |-> "update_metadata", key |-> key, metadata |-> partial,
                     err |-> "KeyError"]
         /\ UNCHANGED embedding_model

UpdateMetadata(key, partial) ==
    IF DictHas(vectors, key)
    THEN /\ Commit(update_metadata(Store, key, partial), task)
         /\ last' = [op |-> "update_metadata", key |-> key, metadata |-> partial,
                     err |-> "None"]
         /\ UNCHANGED embedding_model
    ELSE /\ last' = [op |-> "update_metadata", key |-> key, metadata |-> partial,
                     err |-> "KeyError"]
         /\ UNCHANGED <<vectors, metadata, heap, embedding_model, task, inserted>>

FilterByMetadata(filters) ==
    /\ last' = [op |-> "filter_by_metadata", filters |-> filters,
                result |-> filter_by_metadata(Store, filters)]
    /\ UNCHANGED <<vectors, metadata, heap, embedding_model, task, inserted>>

Search(query_vector, k, include_metadata) ==
    /\ last' = [op |-> "search", query_vector |-> query_vector, k |-> k,
                include_metadata |-> include_metadata,
                result |-> search(Store, query_vector, k, include_metadata)]
    /\ UNCHANGED <<vectors, metadata, heap, embedding_model, task, inserted>>

\* A faulty get_metadata: self.metadata[key], which on the defaultdict gives a
\* key without metadata an entry.
GetMetadataSubscript(key) ==
    /\ Commit(DefaultGet(Store, key), task)
    /\ last' = [op |-> "get_metadata", key |-> key, err |-> "None",
                result |-> get_metadata(Store, key)]
    /\ UNCHANGED embedding_model

\* retrieve_from_key: self.vectors.get(key, None)
RetrieveFromKey(key) ==
    /\ last' = [op |-> "retrieve_from_key", key |-> key,
                result |-> IF DictHas(vectors, key) THEN DictGet(vectors, key)
                           ELSE NoVector]
    /\ UNCHANGED <<vectors, metadata, heap, embedding_model, task, inserted>>

GetMetadata(key) ==
    /\ last' = [op |-> "get_metadata", key |-> key, err |-> "None",
                result |-> get_metadata(Store, key)]
    /\ UNCHANGED <<vectors, metadata, heap, embedding_model, task, inserted>>

\* search_by_text: answer is what the provider does with the one call made to
\* it, a vector or a failure
SearchByText(query_text, k, return_as_text, include_metadata, answer) ==
    /\ last' =
          IF embedding_model = "None"
          THEN [op |-> "search_by_text", err |-> "ValueError",
                query_text |-> query_text, calls |-> <<>>]
          ELSE IF answer.t = "error"
          THEN [op |-> "search_by_text", err |-> answer.error,
                query_text |-> query_text,
                calls |-> <<ProviderCall("get_embedding", query_text)>>]
          ELSE [op |-> "search_by_text", err |-> "None",
                query_text |-> query_text, query_vector |-> answer.v, k |-> k,
                return_as_text |-> return_as_text,
                include_metadata |-> include_metadata,
                result |-> search_by_text(Store, answer.v, k, return_as_text,
                                          include_metadata),
                calls |-> <<ProviderCall("get_embedding", query_text)>>]
    /\ UNCHANGED <<vectors, metadata, heap, embedding_model, task, inserted>>

\* A faulty abuild_from_list: no check that an embedding model is bound.
AbuildCallUnchecked(list_of_text, arg) ==
    /\ task.pc = "idle"
    /\ LET a == IF arg.t = "list" THEN AllocList(heap, arg.items, <<>>)
                ELSE [heap |-> heap, refs |-> <<>>]
           tk == [pc |-> "awaiting", list_of_text |-> list_of_text,
                  metadata_list |-> IF arg.t = "list" THEN PyList(a.refs) ELSE PyNone]
       IN  /\ Commit([Store EXCEPT !.heap = a.heap], tk)
           /\ last' = [op |-> "abuild_from_list", err |-> "await",
                       list_of_text |-> list_of_text,
                       calls |-> <<ProviderCall("async_get_embeddings", list_of_text)>>]
           /\ UNCHANGED embedding_model

\* abuild_from_list up to the await of the provider's answer
AbuildCall(list_of_text, arg) ==
    /\ task.pc = "idle"
    /\ IF embedding_model = "None"
       THEN /\ last' = [op |-> "abuild_from_list", err |-> "ValueError",
                        list_of_text |-> list_of_text, calls |-> <<>>]
            /\ UNCHANGED <<vectors, metadata, heap, embedding_model, task, inserted>>
       ELSE LET a == IF arg.t = "list" THEN AllocList(heap, arg.items, <<>>)
                     ELSE [heap |-> heap, refs |-> <<>>]
                tk == [pc |-> "awaiting", list_of_text |-> list_of_text,
                       metadata_list |-> IF arg.t = "list" THEN PyList(a.refs) ELSE PyNone]
            IN  /\ Commit([Store EXCEPT !.heap = a.heap], tk)
                /\ last' = [op |-> "abuild_from_list", err |-> "await",
                            list_of_text |-> list_of_text,
                            calls |-> <<ProviderCall("async_get_embeddings", list_of_text)>>]
                /\ UNCHANGED embedding_model

\* metadata_list as the awaiting call holds it, with the contents of its
\* mappings
MetadataListContents ==
    IF task.metadata_list.t = "list"
    THEN PyList([i \in DOMAIN task.metadata_list.items |-> heap[task.metadata_list.items[i]]])
    ELSE PyNone

\* A faulty abuild_from_list: the batch goes into a new VectorDatabase, which
\* is returned, and self stays as it was.
AbuildReturnNew(embeddings) ==
    /\ task.pc = "awaiting"
    /\ Commit(Store, Idle)
    /\ last' = [op |-> "abuild_from_list", err |-> "None", result |-> "new",
                list_of_text |-> task.list_of_text, embeddings |-> embeddings,
                metadata_list |-> MetadataListContents, calls |-> <<>>]
    /\ UNCHANGED embedding_model

\* the provider answers: the loop inserts the whole batch and self is returned
AbuildReturn(embeddings) ==
    /\ task.pc = "awaiting"
    /\ Commit(abuild_loop(Store, task.list_of_text, embeddings, task.metadata_list, 1), Idle)
    /\ last' = [op |-> "abuild_from_list", err |-> "None", result |-> "self",
                list_of_text |-> task.list_of_text, embeddings |-> embeddings,
                metadata_list |-> MetadataListContents, calls |-> <<>>]
    /\ UNCHANGED embedding_model

\* A faulty abuild_from_list: a failed provider call is made again.
AbuildRetry(error) ==
    /\ task.pc = "awaiting"
    /\ last' = [op |-> "abuild_from_list", err |-> error,
                calls |-> <<ProviderCall("async_get_embeddings", task.list_of_text)>>]
    /\ UNCHANGED <<vectors, metadata, heap, embedding_model, task, inserted>>

\* A faulty abuild_from_list: the texts are embedded and inserted one by one,
\* and the first is in the store when the provider fails on a later one.
AbuildRaisePartial(error) ==
    /\ task.pc = "awaiting"
    /\ Commit(abuild_loop(Store,
                          IF task.list_of_text = <<>> THEN <<>>
                          ELSE <<task.list_of_text[1]>>,
                          <<<<1, 0>>>>, task.metadata_list, 1), Idle)
    /\ last' = [op |-> "abuild_from_list", err |-> error, calls |-> <<>>]
    /\ UNCHANGED embedding_model

\* the provider fails or the call is cancelled: the error is the coroutine's
AbuildRaise(error) ==
    /\ task.pc = "awaiting"
    /\ Commit(Store, Idle)
    /\ last' = [op |-> "abuild_from_list", err |-> error, calls |-> <<>>]
    /\ UNCHANGED embedding_model

(***************************************************************************)
(* The callers of the repository run the store from one task             *)
(* (asyncio.run(vector_db.abuild_from_list(...))): no call is made while   *)
(* abuild_from_list awaits the provider.                                   *)
(***************************************************************************)
\* what the operations of the store leave alone
restVars == <<appVars, agentVars, splitVars>>

Sequential == task.pc = "idle"

TextLists(K) == UNION {SeqsOf(K, n) : n \in 0..MaxTexts}

\* The mappings callers build for insert and insert_with_metadata; the
\* partial mappings of update_metadata are all of Dicts.
ArgDicts == {EmptyDict, [type |-> PyInt(1)], [page |-> PyInt(1)],
             [type |-> PyInt(1), page |-> PyInt(3)]}

DictArgs == {NoDict} \cup {NewDict(c) : c \in ArgDicts} \cup {HeldDict(r) : r \in DOMAIN heap}

(***************************************************************************)
(* Spec: the writes of the store, with metadata, over two keys and two     *)
(* vectors.                                                                *)
(***************************************************************************)
StoreKeys == {"a", "b"}
StoreVectors == {<<1, 0>>, <<0, 1>>}
\* the lists of at most two texts
StoreTextLists == {<<>>, <<"a">>, <<"b">>,
                   <<"a", "a">>, <<"a", "b">>, <<"b", "a">>, <<"b", "b">>}
StoreEmbeddings == UNION {SeqsOf(StoreVectors, Len(t)) : t \in StoreTextLists}
\* metadata_list: absent, or one new mapping (fewer than the texts, when there
\* are two)
StoreMetadataLists == {NoDict, PyList(<<NewDict([type |-> PyInt(1)])>>)}

Next ==
    \/ Sequential /\ \E key \in StoreKeys, vector \in StoreVectors, arg \in DictArgs :
           Insert(key, vector, arg) /\ UNCHANGED restVars
    \/ Sequential /\ \E key \in StoreKeys, vector \in StoreVectors, kwargs \in ArgDicts :
           InsertWithMetadata(key, vector, kwargs) /\ UNCHANGED restVars
    \/ Sequential /\ \E key \in StoreKeys, partial \in Dicts : UpdateMetadata(key, partial) /\ UNCHANGED restVars
    \/ \E list_of_text \in StoreTextLists, arg \in StoreMetadataLists :
           AbuildCall(list_of_text, arg) /\ UNCHANGED restVars
    \/ \E embeddings \in async_get_embeddings(task.list_of_text, StoreEmbeddings) :
           AbuildReturn(embeddings) /\ UNCHANGED restVars
    \/ \E error \in ProviderErrors : AbuildRaise(error) /\ UNCHANGED restVars

Spec == Init /\ [][Next]_vars

(***************************************************************************)
(* SpecFilter: metadata and filter_by_metadata, over two keys and one      *)
(* vector, on a store built as the tests of the metadata build it:         *)
(* VectorDatabase(embedding_model=None).                                   *)
(***************************************************************************)
InitNoModel == Init /\ embedding_model = "None"

NextFilter ==
    \/ \E key \in StoreKeys, arg \in DictArgs : Insert(key, <<1, 0>>, arg) /\ UNCHANGED restVars
    \/ \E key \in StoreKeys, kwargs \in ArgDicts : InsertWithMetadata(key, <<1, 0>>, kwargs) /\ UNCHANGED restVars
    \/ \E key \in StoreKeys, partial \in Dicts : UpdateMetadata(key, partial) /\ UNCHANGED restVars
    \/ \E filters \in Filters : FilterByMetadata(filters) /\ UNCHANGED restVars

SpecFilter == InitNoModel /\ [][NextFilter]_vars

(***************************************************************************)
(* SpecSearch: search over three keys and vectors of every kind (the zero  *)
(* vector, and vectors of positive, zero and negative cosine), no          *)
(* metadata, on VectorDatabase(embedding_model=None).                      *)
(***************************************************************************)
SearchKeys == {"a", "b", "c"}
SearchVectors == {<<0, 0>>, <<1, 0>>, <<1, 1>>, <<-1, 0>>}

NextSearch ==
    \/ \E key \in SearchKeys, vector \in SearchVectors : Insert(key, vector, NoDict) /\ UNCHANGED restVars
    \/ \E query_vector \in SearchVectors, k \in 0..MaxK : Search(query_vector, k, FALSE) /\ UNCHANGED restVars

SpecSearch == InitNoModel /\ [][NextSearch]_vars

(***************************************************************************)
(* SpecRead: the reads of metadata, get_metadata and search with           *)
(* include_metadata, over two keys with and without metadata.              *)
(***************************************************************************)
NextRead ==
    \/ \E key \in StoreKeys, arg \in DictArgs : Insert(key, <<1, 0>>, arg) /\ UNCHANGED restVars
    \/ \E key \in StoreKeys, partial \in ArgDicts : UpdateMetadata(key, partial) /\ UNCHANGED restVars
    \/ \E key \in StoreKeys : GetMetadata(key) /\ UNCHANGED restVars
    \/ \E query_vector \in StoreVectors, k \in 0..MaxK : Search(query_vector, k, TRUE) /\ UNCHANGED restVars

SpecRead == InitNoModel /\ [][NextRead]_vars

(***************************************************************************)
(* SpecBuild: abuild_from_list and search_by_text with and without an      *)
(* embedding model, lists of texts with repeated texts and lists of        *)
(* metadata that are absent, empty, shorter, as long or longer than the    *)
(* texts, on a store where key "a" may have been inserted before; insert   *)
(* and search_by_text are also called while a build awaits the provider.   *)
(***************************************************************************)
BuildTextLists == TextLists(StoreKeys)
BuildEmbeddings == UNION {SeqsOf(StoreVectors, n) : n \in 0..MaxTexts}
BuildMetadataLists ==
    {NoDict, PyList(<<>>),
     PyList(<<NewDict([page |-> PyInt(1)])>>),
     PyList(<<NewDict([page |-> PyInt(1)]), NewDict([page |-> PyInt(3)])>>),
     PyList(<<NewDict([page |-> PyInt(1)]), SameDict(1)>>)}

\* what the provider does with a get_embedding call
Vector(v) == [t |-> "vector", v |-> v]
Failure(error) == [t |-> "error", error |-> error]
Answers(text, V) ==
    {Vector(v) : v \in get_embedding(text, V)} \cup {Failure(e) : e \in ProviderErrors}

NextBuild ==
    \/ \E arg \in {NoDict, NewDict([type |-> PyInt(1)])} : Insert("a", <<1, 1>>, arg) /\ UNCHANGED restVars
    \/ \E list_of_text \in BuildTextLists, arg \in BuildMetadataLists :
           AbuildCall(list_of_text, arg) /\ UNCHANGED restVars
    \/ \E embeddings \in async_get_embeddings(task.list_of_text, BuildEmbeddings) :
           AbuildReturn(embeddings) /\ UNCHANGED restVars
    \/ \E error \in ProviderErrors : AbuildRaise(error) /\ UNCHANGED restVars
    \/ \E answer \in Answers("q", {<<1, 0>>}) : SearchByText("q", 1, FALSE, FALSE, answer) /\ UNCHANGED restVars

SpecBuild == Init /\ [][NextBuild]_vars

(***************************************************************************)
(* SpecText: search_by_text with every combination of its flags, over      *)
(* three vectors of different scores.                                      *)
(***************************************************************************)
TextVectors == {<<1, 0>>, <<0, 1>>, <<1, 1>>}

NextText ==
    \/ \E key \in StoreKeys, vector \in TextVectors,
          arg \in {NoDict, NewDict([type |-> PyInt(1)])} : Insert(key, vector, arg) /\ UNCHANGED restVars
    \/ \E k \in 0..MaxK, return_as_text \in BOOLEAN, include_metadata \in BOOLEAN,
          answer \in Answers("q", TextVectors) :
           SearchByText("q", k, return_as_text, include_metadata, answer) /\ UNCHANGED restVars

SpecText == Init /\ [][NextText]_vars

(***************************************************************************)
(* SpecReadOnly: every read of the store, of keys with and without a       *)
(* vector and with and without metadata.                                   *)
(***************************************************************************)
NextReadOnly ==
    \/ \E key \in StoreKeys, arg \in {NoDict, NewDict([type |-> PyInt(1)])} :
           Insert(key, <<1, 0>>, arg) /\ UNCHANGED restVars
    \/ \E key \in StoreKeys : GetMetadata(key) /\ UNCHANGED restVars
    \/ \E key \in StoreKeys : RetrieveFromKey(key) /\ UNCHANGED restVars
    \/ \E query_vector \in StoreVectors, include_metadata \in BOOLEAN :
           Search(query_vector, 2, include_metadata) /\ UNCHANGED restVars
    \/ \E include_metadata \in BOOLEAN, answer \in Answers("q", StoreVectors) :
           SearchByText("q", 2, TRUE, include_metadata, answer) /\ UNCHANGED restVars
    \/ \E filters \in {EmptyDict, [type |-> PyInt(1)], [page |-> PyNone]} :
           FilterByMetadata(filters) /\ UNCHANGED restVars

SpecReadOnly == Init /\ [][NextReadOnly]_vars

(***************************************************************************)
(* CharacterTextSplitter (text_utils.py).  A text is a sequence of         *)
(* characters.                                                             *)
(***************************************************************************)
\* s[start:stop] of Python: a negative index counts from the end, and both
\* ends are clamped to the sequence
PyIndex(s, x) ==
    IF x < 0 THEN (IF x + Len(s) < 0 THEN 0 ELSE x + Len(s))
    ELSE IF x > Len(s) THEN Len(s) ELSE x

PySlice(s, start, stop) ==
    IF PyIndex(s, stop) > PyIndex(s, start)
    THEN SubSeq(s, PyIndex(s, start) + 1, PyIndex(s, stop))
    ELSE <<>>

\* CharacterTextSplitter(chunk_size, chunk_overlap), once the assertion
\* chunk_size > chunk_overlap has passed
CharacterTextSplitter(chunk_size, chunk_overlap) ==
    [chunk_size |-> chunk_size, chunk_overlap |-> chunk_overlap]

\* for i in range(i, len(text), chunk_size - chunk_overlap):
\*     chunks.append(text[i : i + chunk_size])
RECURSIVE split_loop(_, _, _, _)
split_loop(self, t, i, acc) ==
    IF i >= Len(t) THEN acc
    ELSE split_loop(self, t, i + (self.chunk_size - self.chunk_overlap),
                    Append(acc, PySlice(t, i, i + self.chunk_size)))

split(self, t) == split_loop(self, t, 0, <<>>)

\* __init__: the assertion fails and no splitter is made, or the splitter
SplitterInit(chunk_size, chunk_overlap) ==
    /\ splitter' = IF chunk_size > chunk_overlap
                   THEN CharacterTextSplitter(chunk_size, chunk_overlap)
                   ELSE PyNone
    /\ split_text' = <<>>
    /\ chunks' = <<>>
    /\ UNCHANGED <<storeVars, appVars, agentVars>>

Split(t) ==
    /\ splitter # PyNone
    /\ split_text' = t
    /\ chunks' = split(splitter, t)
    /\ UNCHANGED <<splitter, storeVars, appVars, agentVars>>

(***************************************************************************)
(* SpecSplit: every splitter the constructor accepts, with sizes and       *)
(* overlaps that are negative, zero and positive, on texts of distinct     *)
(* characters.                                                             *)
(***************************************************************************)
Alphabet == <<"a", "b", "c", "d", "e", "f", "g">>
SplitTexts == {SubSeq(Alphabet, 1, n) : n \in 0..MaxTextLen}
ChunkSizes == (0 - 1)..MaxChunk
ChunkOverlaps == (0 - 2)..MaxChunk

NextSplit ==
    \/ \E chunk_size \in ChunkSizes, chunk_overlap \in ChunkOverlaps :
           SplitterInit(chunk_size, chunk_overlap)
    \/ \E t \in SplitTexts : Split(t)

SpecSplit == Init /\ [][NextSplit]_vars

(***************************************************************************)
(* The Flask RAG app (app.py): the globals vector_db, chat_model and       *)
(* pdf_text_chunks and the routes /upload, /chat and /status.  A request   *)
(* is handled in one step.                                                 *)
(***************************************************************************)
AppChunkSize == 1000
AppChunkOverlap == 200
ChatK == 3

\* VectorDatabase(): a store without vectors
EmptyStore == [vectors |-> <<>>, metadata |-> <<>>, heap |-> [r \in {} |-> EmptyDict],
               inserted |-> [k \in {} |-> NoVector]]
VectorDatabase(st) == [t |-> "VectorDatabase", st |-> st]

\* a file name: its stem and what follows its last dot, "" if it has no dot
Filename(stem, ext) == [stem |-> stem, ext |-> ext]
EmptyFilename == Filename("", "")
Lower(ext) == IF ext = "TXT" THEN "txt" ELSE IF ext = "PDF" THEN "pdf" ELSE ext

allowed_extensions == {"pdf", "docx", "txt", "rtf"}
allowed_file(filename) == filename.ext # "" /\ Lower(filename.ext) \in allowed_extensions

\* text.strip()
RECURSIVE lstrip(_)
lstrip(t) == IF t # <<>> /\ Head(t) = " " THEN lstrip(Tail(t)) ELSE t
strip(t) == Reverse(lstrip(Reverse(lstrip(t))))

\* the outcome of vector_db.abuild_from_list(chunks): the embeddings of the
\* chunks, or the exception it raises (ValueError without an embedding
\* model, or an error of the provider)
BuildErrors == {"ValueError"} \cup ProviderErrors

\* process_document as far as it gets: the globals it has assigned, and the
\* chunks it returns or the exception it raises.  content is the text
\* extract_text_from_file returns, or its failure; build is the outcome of
\* abuild_from_list.
process_document(db, text_chunks, content, build) ==
    IF content.t = "error"
    THEN [err |-> "ValueError", vector_db |-> db, pdf_text_chunks |-> text_chunks]
    ELSE IF strip(content.text) = <<>>
    THEN [err |-> "ValueError", vector_db |-> db, pdf_text_chunks |-> text_chunks]
    ELSE LET new_chunks == split(CharacterTextSplitter(AppChunkSize, AppChunkOverlap),
                                 content.text)
         IN  IF build.t = "error"
             THEN [err |-> build.error, vector_db |-> VectorDatabase(EmptyStore),
                   pdf_text_chunks |-> new_chunks]
             ELSE [err |-> "None",
                   vector_db |-> VectorDatabase(abuild_loop(EmptyStore, new_chunks,
                                                            build.embeddings, PyNone, 1)),
                   pdf_text_chunks |-> new_chunks]

\* POST /upload.  files is <<>> or holds the file of the form
Upload(files, build) ==
    /\ IF files = <<>>
       THEN /\ response' = [route |-> "/upload", status |-> 400, error |-> "No file provided"]
            /\ UNCHANGED <<vector_db, pdf_text_chunks>>
       ELSE IF files[1].filename = EmptyFilename
       THEN /\ response' = [route |-> "/upload", status |-> 400, error |-> "No file selected"]
            /\ UNCHANGED <<vector_db, pdf_text_chunks>>
       ELSE IF ~allowed_file(files[1].filename)
       THEN /\ response' = [route |-> "/upload", status |-> 400, error |-> "not allowed"]
            /\ UNCHANGED <<vector_db, pdf_text_chunks>>
       ELSE LET r == process_document(vector_db, pdf_text_chunks, files[1].content, build)
            IN  /\ vector_db' = r.vector_db
                /\ pdf_text_chunks' = r.pdf_text_chunks
                /\ response' = IF r.err = "None"
                               THEN [route |-> "/upload", status |-> 200,
                                     chunks_count |-> Len(r.pdf_text_chunks)]
                               ELSE [route |-> "/upload", status |-> 500, error |-> r.err]
    /\ UNCHANGED <<chat_model, storeVars, agentVars, splitVars>>

\* POST /chat.  answer is what the provider gives for the embedding of the
\* message, reply whether chat_model.run returns
Chat(message, answer, reply) ==
    /\ response' =
          IF vector_db = PyNone
          THEN [route |-> "/chat", status |-> 400, error |-> "No documents uploaded yet"]
          ELSE IF chat_model = "None"
          THEN [route |-> "/chat", status |-> 500, error |-> "Chat model not initialized"]
          ELSE IF strip(message) = <<>>
          THEN [route |-> "/chat", status |-> 400, error |-> "No message provided"]
          ELSE IF answer.t = "error"
          THEN [route |-> "/chat", status |-> 500, error |-> answer.error]
          ELSE IF ~reply
          THEN [route |-> "/chat", status |-> 500, error |-> "chat_model.run"]
          ELSE LET relevant_chunks == search_by_text(vector_db.st, answer.v, ChatK, TRUE, FALSE)
               IN  [route |-> "/chat", status |-> 200, context |-> relevant_chunks,
                    context_used |-> Len(relevant_chunks)]
    /\ UNCHANGED <<vector_db, chat_model, pdf_text_chunks, storeVars, agentVars, splitVars>>

\* GET /status
Status ==
    /\ response' = [route |-> "/status", status |-> 200,
                    pdf_loaded |-> vector_db # PyNone,
                    chunks_count |-> IF pdf_text_chunks # <<>> THEN Len(pdf_text_chunks) ELSE 0,
                    chat_ready |-> chat_model # "None"]
    /\ UNCHANGED <<vector_db, chat_model, pdf_text_chunks, storeVars, agentVars, splitVars>>

(***************************************************************************)
(* SpecApp: uploads of no file, a file without a name, files of allowed    *)
(* and other types, documents that cannot be read, are blank, have one     *)
(* chunk or two, builds that succeed and fail; chats and status requests   *)
(* in between.                                                             *)
(***************************************************************************)
Text(t) == [t |-> "text", text |-> t]
\* a text one character longer than the step of the splitter: two chunks
LongText == [i \in 1..(AppChunkSize - AppChunkOverlap + 1) |-> "x"]
AppContents == {Text(<<"a">>), Text(<<"b", " ">>), Text(<<" ">>), Text(LongText),
                Failure("ValueError")}
File(filename, content) == [filename |-> filename, content |-> content]
AppFiles == {<<>>, <<File(EmptyFilename, Text(<<"a">>))>>,
             <<File(Filename("a", "exe"), Text(<<"a">>))>>,
             <<File(Filename("a", ""), Text(<<"a">>))>>}
               \cup {<<File(Filename("a", "TXT"), c)>> : c \in AppContents}
Embeddings(e) == [t |-> "embeddings", embeddings |-> e]
AppBuilds == {Embeddings(e) : e \in SeqsOf({<<1, 0>>, <<0, 1>>}, 1)
                                    \cup {<<(<<1, 0>>), (<<0, 1>>)>>}}
                 \cup {Failure(e) : e \in BuildErrors}

InitAppSpec ==
    /\ InitStore /\ embedding_model = "None"
    /\ InitApp
    /\ InitAgent /\ env = {}
    /\ InitSplitter

NextApp ==
    \/ \E files \in AppFiles, build \in AppBuilds :
           /\ build.t = "embeddings" =>
                  /\ files # <<>>
                  /\ files[1].content.t = "text"
                  /\ Len(build.embeddings)
                         = Len(split(CharacterTextSplitter(AppChunkSize, AppChunkOverlap),
                                     files[1].content.text))
           /\ Upload(files, build)
    \/ \E message \in {<<>>, <<" ">>, <<"q">>}, answer \in Answers("q", {<<1, 0>>, <<0, 1>>}),
          reply \in BOOLEAN : Chat(message, answer, reply)
    \/ Status

SpecApp == InitAppSpec /\ [][NextApp]_vars

(***************************************************************************)
(* The LangGraph agent (agent_setup.py): the graph of create_agent with    *)
(* its nodes agent (call_model) and action (call_tools).  A node runs in   *)
(* one step; node is the node that runs next, END when the run has ended   *)
(* and "error" when a node has raised.                                     *)
(***************************************************************************)
END == "__end__"

HumanMessage(content) == [type |-> "human", content |-> content]
AIMessage(tool_calls) == [type |-> "ai", tool_calls |-> tool_calls]
ToolMessage(content, tool_call_id) ==
    [type |-> "tool", content |-> content, tool_call_id |-> tool_call_id]
ToolCall(name, id) == [name |-> name, id |-> id]

Raised(error) == [err |-> error]
Returned(value) == [err |-> "None", value |-> value]

\* get_model: ValueError without OPENAI_API_KEY
get_model(e) ==
    IF "OPENAI_API_KEY" \in e THEN Returned("ChatOpenAI") ELSE Raised("ValueError")

\* get_tool_belt: the names of its three tools; get_search_tool raises
\* ValueError without TAVILY_API_KEY
get_tool_belt(e) ==
    IF "TAVILY_API_KEY" \in e
    THEN Returned(<<"tavily_search_results_json", "arxiv", "wikipedia_search">>)
    ELSE Raised("ValueError")

\* get_model().bind_tools(get_tool_belt())
get_model_with_tools(e) ==
    IF get_model(e).err # "None" THEN get_model(e) ELSE get_tool_belt(e)

\* A faulty should_continue: the branches are exchanged.
should_continue_exchanged(state) ==
    LET last_message == state[Len(state)]
    IN  IF "tool_calls" \in DOMAIN last_message /\ last_message.tool_calls # <<>>
        THEN END ELSE "action"

should_continue(state) ==
    LET last_message == state[Len(state)]
    IN  IF "tool_calls" \in DOMAIN last_message /\ last_message.tool_calls # <<>>
        THEN "action" ELSE END

\* for tool in tool_belt: the message of the first tool of that name, which
\* ran or raised; none if no tool has the name
RECURSIVE tool_loop(_, _, _, _)
tool_loop(tool_belt, tool_call, outcome, i) ==
    IF i > Len(tool_belt) THEN <<>>
    ELSE IF tool_belt[i] = tool_call.name
    THEN IF outcome = "returns"
         THEN <<ToolMessage([kind |-> "result", tool |-> tool_call.name], tool_call.id)>>
         ELSE <<ToolMessage([kind |-> "error", tool |-> tool_call.name], tool_call.id)>>
    ELSE tool_loop(tool_belt, tool_call, outcome, i + 1)

\* A faulty loop over the tool calls: a call of a tool that is not in the
\* tool belt gets no message.
RECURSIVE call_tools_found_only(_, _, _, _)
call_tools_found_only(tool_calls, tool_belt, outcomes, i) ==
    IF i > Len(tool_calls) THEN <<>>
    ELSE tool_loop(tool_belt, tool_calls[i], outcomes[i], 1)
             \o call_tools_found_only(tool_calls, tool_belt, outcomes, i + 1)

\* for tool_call in tool_calls, from the i-th on: tool_messages.  outcomes[i]
\* says whether tool.invoke returns or raises for the i-th call
RECURSIVE call_tools(_, _, _, _)
call_tools(tool_calls, tool_belt, outcomes, i) ==
    IF i > Len(tool_calls) THEN <<>>
    ELSE LET found == tool_loop(tool_belt, tool_calls[i], outcomes[i], 1)
         IN  (IF found # <<>> THEN found
              ELSE <<ToolMessage([kind |-> "not found", tool |-> tool_calls[i].name],
                                 tool_calls[i].id)>>)
                 \o call_tools(tool_calls, tool_belt, outcomes, i + 1)

\* agent.invoke({"messages": [input]}): the run starts at the entry point
Invoke(input) ==
    /\ node = "idle"
    /\ messages' = <<input>>
    /\ node' = "agent"
    /\ UNCHANGED <<env, storeVars, appVars, splitVars>>

\* the node agent: call_model raises, or its response is added to the
\* messages and should_continue picks the next node.  answer is what the
\* model answers, or the error of the call.
AgentStep(answer) ==
    /\ node = "agent"
    /\ Len(messages) < MaxMessages
    /\ IF get_model_with_tools(env).err # "None" \/ answer.t = "error"
       THEN /\ node' = "error"
            /\ UNCHANGED messages
       ELSE /\ messages' = Append(messages, answer.message)
            /\ node' = should_continue(messages')
    /\ UNCHANGED <<env, storeVars, appVars, splitVars>>

\* the node action: call_tools, then the edge to agent
ActionStep(outcomes) ==
    /\ node = "action"
    /\ Len(outcomes) = Len(messages[Len(messages)].tool_calls)
    /\ IF get_tool_belt(env).err # "None"
       THEN /\ node' = "error"
            /\ UNCHANGED messages
       ELSE /\ messages' = messages \o call_tools(messages[Len(messages)].tool_calls,
                                                  get_tool_belt(env).value, outcomes, 1)
            /\ node' = "agent"
    /\ UNCHANGED <<env, storeVars, appVars, splitVars>>

(***************************************************************************)
(* SpecAgent: runs with and without the API keys, model answers without    *)
(* tool calls, with one and with two, of tools in the tool belt and of a   *)
(* tool that is not, tools that return and tools that raise.               *)
(***************************************************************************)
Wikipedia(id) == ToolCall("wikipedia_search", id)
Arxiv(id) == ToolCall("arxiv", id)
Calculator(id) == ToolCall("calculator", id)
ToolCallLists == {<<>>, <<Wikipedia("call_1")>>, <<Calculator("call_1")>>,
                  <<Wikipedia("call_1"), Arxiv("call_2")>>,
                  <<Arxiv("call_2"), Calculator("call_1")>>,
                  <<Calculator("call_1"), Wikipedia("call_1")>>}
Answer(message) == [t |-> "message", message |-> message]
ModelAnswers == {Answer(AIMessage(tc)) : tc \in ToolCallLists}
                    \cup {Failure(e) : e \in ProviderErrors}
ToolOutcomes == UNION {SeqsOf({"returns", "raises"}, n) : n \in 0..2}

InitAgentSpec ==
    /\ InitStore /\ embedding_model = "None"
    /\ InitApp /\ chat_model = "None"
    /\ InitAgent
    /\ InitSplitter

NextAgent ==
    \/ Invoke(HumanMessage("question"))
    \/ \E answer \in ModelAnswers : AgentStep(answer)
    \/ \E outcomes \in ToolOutcomes : ActionStep(outcomes)

SpecAgent == InitAgentSpec /\ [][NextAgent]_vars


(***************************************************************************)
(* Properties of the writes (Spec).                                        *)
(***************************************************************************)
\* The metadata entry of a key: PyNone when self.metadata has no entry for it.
MdEntry(md, h, k) == IF DictHas(md, k) THEN [t |-> "dict", c |-> MetaOf(md, h, k)] ELSE PyNone

\* C1: after any sequence of insert, insert_with_metadata and
\* abuild_from_list calls the store holds exactly one entry per key inserted,
\* and the vector of a key is the vector of the most recent insert of it.
C1_OneEntryPerKeyLastVector ==
    /\ DictKeys(vectors) = DOMAIN inserted
    /\ \A k \in DOMAIN inserted :
          /\ Cardinality({i \in DOMAIN vectors : vectors[i].key = k}) = 1
          /\ DictGet(vectors, k) = inserted[k]

\* an insert has replaced the vector of a key by another one, and another key
\* is stored too
C1_Witness ==
    /\ last.op = "insert"
    /\ last.overwrote
    /\ Len(vectors) = 2
    /\ DictGet(vectors, last.key) = last.vector

\* C2: insert(key, vector, metadata) with metadata makes the metadata of key
\* exactly the mapping given; with metadata omitted it leaves the metadata
\* entry of key as it was (none, if there was none) and overwrites the vector.
C2_InsertMetadata ==
    [][last'.op = "insert" =>
          /\ DictGet(vectors', last'.key) = last'.vector
          /\ IF last'.metadata.t = "dict"
             THEN MdEntry(metadata', heap', last'.key) = last'.metadata
             ELSE MdEntry(metadata', heap', last'.key) = MdEntry(metadata, heap, last'.key)]_vars

\* an insert without metadata has overwritten the vector of a key that has
\* metadata
C2_Witness ==
    /\ last.op = "insert"
    /\ last.metadata.t = "None"
    /\ last.overwrote
    /\ last.had_metadata
    /\ MetaOf(metadata, heap, last.key) # EmptyDict

\* C3: update_metadata(key, partial) on a key that has a vector merges
\* shallowly: every field of partial gets the value of partial, every other
\* field is there, with its value, iff it was before; with no metadata before,
\* the result is partial.
C3_UpdateMerges ==
    [][(last'.op = "update_metadata" /\ DictHas(vectors, last'.key)) =>
          LET key == last'.key
              partial == last'.metadata
              old == get_metadata(Store, key)
          IN  /\ last'.err = "None"
              /\ DictHas(metadata', key)
              /\ LET new == MetaOf(metadata', heap', key)
                 IN  /\ \A f \in DOMAIN partial : f \in DOMAIN new /\ new[f] = partial[f]
                     /\ \A f \in Fields \ DOMAIN partial :
                           /\ f \in DOMAIN new <=> f \in DOMAIN old
                           /\ f \in DOMAIN old => new[f] = old[f]
                     /\ ~DictHas(metadata, key) => new = partial]_vars

\* an update has overwritten one field, and another field of the key is kept
C3_Witness ==
    /\ last.op = "update_metadata"
    /\ last.err = "None"
    /\ last.metadata = [page |-> PyInt(3)]
    /\ MetaOf(metadata, heap, last.key) = [type |-> PyInt(1), page |-> PyInt(3)]

\* C4: update_metadata on a key with no vector fails with KeyError and leaves
\* the vectors, the metadata entries and the mappings as they were.
C4_UpdateAbsentKey ==
    [][(last'.op = "update_metadata" /\ ~DictHas(vectors, last'.key)) =>
          /\ last'.err = "KeyError"
          /\ UNCHANGED <<vectors, metadata, heap>>]_vars

\* an update of a key with no vector has failed in a store that holds another
\* key with metadata
C4_Witness ==
    /\ last.op = "update_metadata"
    /\ last.err = "KeyError"
    /\ ~DictHas(vectors, last.key)
    /\ Len(vectors) = 1
    /\ Len(metadata) = 1


(***************************************************************************)
(* Properties of filter_by_metadata (SpecFilter).                          *)
(***************************************************************************)
Range(s) == {s[i] : i \in DOMAIN s}

\* lambda x: x <= 2, applied to a stored value
ApplyPredicate(x) == x.t = "int" /\ x.v <= 2

\* the test a filter value stands for: the predicate, or equality with the
\* literal
Test(filter_value, x) ==
    IF filter_value.t = "function" THEN ApplyPredicate(x) ELSE x = filter_value

\* the keys whose metadata has every field of the filter, with a value that
\* passes the field's test
KeysMatching(filters) ==
    {k \in DictKeys(metadata) :
        \A f \in DOMAIN filters :
            /\ f \in DOMAIN MetaOf(metadata, heap, k)
            /\ Test(filters[f], MetaOf(metadata, heap, k)[f])}

\* C5: filter_by_metadata with literal values returns exactly the keys whose
\* metadata has every field of the filter with a value equal to the literal; a
\* key whose metadata lacks a field of the filter is not returned, whatever
\* the literal.
C5_LiteralFilter ==
    (/\ last.op = "filter_by_metadata"
     /\ \A f \in DOMAIN last.filters : last.filters[f].t \in {"int", "None"})
    => Range(last.result) = KeysMatching(last.filters)

\* C6: a filter value that is a predicate is applied: on that field a key
\* matches iff the field is in its metadata and the predicate is true of the
\* stored value.
C6_PredicateFilter ==
    (/\ last.op = "filter_by_metadata"
     /\ \A f \in DOMAIN last.filters : last.filters[f].t \in {"int", "function"}
     /\ \E f \in DOMAIN last.filters : last.filters[f].t = "function")
    => Range(last.result) = KeysMatching(last.filters)

\* C7: filter_by_metadata with no filter returns exactly the keys with at
\* least one metadata field: a key whose metadata is the empty mapping, or was
\* never set, is not returned.
C7_EmptyFilter ==
    (last.op = "filter_by_metadata" /\ DOMAIN last.filters = {})
    => Range(last.result) =
           {k \in DictKeys(vectors) : get_metadata(Store, k) # EmptyDict}

(***************************************************************************)
(* Properties of search (SpecSearch).                                      *)
(***************************************************************************)
\* the score of a stored key for the query of the last search
ScoreOf(k) == cosine_similarity(last.query_vector, DictGet(vectors, k))

\* no score of the last search is NaN: the query and every stored vector have
\* a norm that is not zero
NoNaN == \A k \in DictKeys(vectors) : ~IsNaN(ScoreOf(k))

\* the results are in non-increasing score order (no result has a score below
\* that of a later one), with equal scores in the order of insertion
SortedStable(result) ==
    \A i, j \in DOMAIN result :
        i < j => /\ ~ScoreLT(result[i].score, result[j].score)
                 /\ ScoreEQ(result[i].score, result[j].score)
                    => DictIndex(vectors, result[i].key) < DictIndex(vectors, result[j].key)

\* every result is a stored key with its score, no key twice, and no stored
\* key left out has a score above that of a key returned
Exact(result) ==
    /\ \A i \in DOMAIN result :
          /\ DictHas(vectors, result[i].key)
          /\ result[i].score = ScoreOf(result[i].key)
          /\ \A j \in DOMAIN result : result[j].key = result[i].key => j = i
    /\ \A k \in DictKeys(vectors) \ {result[i].key : i \in DOMAIN result} :
          \A i \in DOMAIN result : ~ScoreLT(result[i].score, ScoreOf(k))

\* C8, as claimed: search returns its results in non-increasing score order,
\* entries of equal score in insertion order.
C8_SortedStable == last.op = "search" => SortedStable(last.result)

\* C8, amended: it does when no score is NaN.
C8_SortedStableNoNaN == (last.op = "search" /\ NoNaN) => SortedStable(last.result)

\* a search without NaN has returned three results, two of equal score and two
\* of different scores
C8_Witness ==
    /\ last.op = "search"
    /\ NoNaN
    /\ Len(last.result) = 3
    /\ \E i, j \in DOMAIN last.result :
          i # j /\ ScoreEQ(last.result[i].score, last.result[j].score)
    /\ \E i, j \in DOMAIN last.result :
          ScoreLT(last.result[i].score, last.result[j].score)

\* C9, as claimed: each returned score is the similarity of the query and the
\* vector stored for the key, and every stored key not returned has a score
\* less than or equal to that of every key returned.
C9_Exact == last.op = "search" => Exact(last.result)

\* C9, amended: it is when no score is NaN.
C9_ExactNoNaN == (last.op = "search" /\ NoNaN) => Exact(last.result)

\* a search without NaN has returned some keys and left out a key that was
\* inserted before one it returned
C9_Witness ==
    /\ last.op = "search"
    /\ NoNaN
    /\ Len(last.result) = 2
    /\ Len(vectors) = 3
    /\ \E k \in DictKeys(vectors) \ {last.result[i].key : i \in DOMAIN last.result} :
          /\ DictIndex(vectors, k) = 1
          /\ ScoreLT(ScoreOf(k), last.result[2].score)

\* C10: for k >= 0 and n entries search returns min(k, n) results: none for
\* k = 0, and all n keys for k > n.
C10_ResultCount ==
    last.op = "search" =>
        /\ Len(last.result) = (IF last.k < Len(vectors) THEN last.k ELSE Len(vectors))
        /\ last.k = 0 => last.result = <<>>
        /\ last.k > Len(vectors) =>
               {last.result[i].key : i \in DOMAIN last.result} = DictKeys(vectors)

\* a search with k above the number of entries has returned all three
C10_Witness ==
    /\ last.op = "search"
    /\ last.k > Len(vectors)
    /\ Len(vectors) = 3
    /\ Len(last.result) = 3


(***************************************************************************)
(* Properties of the reads of metadata (SpecRead).                         *)
(***************************************************************************)
\* the mapping stored for a key, the empty mapping if there is none
StoredOrEmpty(k) ==
    IF \E i \in DOMAIN metadata : metadata[i].key = k
    THEN heap[metadata[CHOOSE i \in DOMAIN metadata : metadata[i].key = k].val]
    ELSE EmptyDict

\* C11: the reads take missing metadata for an empty mapping and never fail:
\* get_metadata returns the stored metadata, or an empty mapping for a key
\* without metadata or an unknown key; search with include_metadata returns
\* (key, score, metadata) triples with the stored metadata of the key or an
\* empty mapping.
C11_ReadsDefaultEmpty ==
    /\ last.op = "get_metadata" =>
           /\ last.err = "None"
           /\ last.result = StoredOrEmpty(last.key)
    /\ (last.op = "search" /\ last.include_metadata) =>
           \A i \in DOMAIN last.result :
               /\ DOMAIN last.result[i] = {"key", "score", "metadata"}
               /\ last.result[i].metadata = StoredOrEmpty(last.result[i].key)

\* a search with include_metadata has returned a key that has fields of
\* metadata and a key that has no metadata entry
C11_Witness ==
    /\ last.op = "search"
    /\ last.include_metadata
    /\ Len(last.result) = 2
    /\ \E i, j \in DOMAIN last.result :
          /\ DictHas(metadata, last.result[i].key)
          /\ last.result[i].metadata # EmptyDict
          /\ ~DictHas(metadata, last.result[j].key)
          /\ last.result[j].metadata = EmptyDict


(***************************************************************************)
(* Properties of abuild_from_list and search_by_text (SpecBuild).          *)
(***************************************************************************)
\* C12: on a store with no embedding model search_by_text and
\* abuild_from_list fail with ValueError before any call of a provider, and
\* leave the vectors and the metadata as they were.
C12_NoModelFails ==
    [][(embedding_model = "None" /\ last'.op \in {"search_by_text", "abuild_from_list"}) =>
          /\ last'.err = "ValueError"
          /\ last'.calls = <<>>
          /\ UNCHANGED <<vectors, metadata, heap>>]_vars

\* abuild_from_list of some texts has failed on a store without a model that
\* holds a key with metadata
C12_Witness ==
    /\ embedding_model = "None"
    /\ last.op = "abuild_from_list"
    /\ last.err = "ValueError"
    /\ last.list_of_text # <<>>
    /\ Len(vectors) = 1
    /\ Len(metadata) = 1

\* C13: a VectorDatabase constructed with no arguments (embedding_model is
\* None) can be built and queried: abuild_from_list and a following
\* search_by_text do not fail for the lack of a model.
C13_DefaultStoreBuilds ==
    (embedding_model = "None" /\ last.op \in {"search_by_text", "abuild_from_list"})
    => last.err # "ValueError"


\* the last step is an abuild_from_list call that has returned
Built == last.op = "abuild_from_list" /\ last.err = "None"

\* text i of the batch of the last step has an i-th metadata entry
HasEntry(i) == last.metadata_list.t = "list" /\ i <= Len(last.metadata_list.items)

Distinct(s) == \A i, j \in DOMAIN s : s[i] = s[j] => i = j

\* C14: within one abuild_from_list call of distinct texts, text i is stored
\* with embedding i of the provider's answer, and its metadata is entry i of
\* metadata_list.
C14_BuildPairs ==
    (Built /\ Distinct(last.list_of_text)) =>
        \A i \in DOMAIN last.list_of_text :
            /\ DictHas(vectors, last.list_of_text[i])
            /\ DictGet(vectors, last.list_of_text[i]) = last.embeddings[i]
            /\ HasEntry(i) =>
                   StoredOrEmpty(last.list_of_text[i]) = last.metadata_list.items[i]

\* a build of two distinct texts with two different embeddings and two
\* different mappings has returned
C14_Witness ==
    /\ Built
    /\ Len(last.list_of_text) = 2
    /\ Distinct(last.list_of_text)
    /\ last.embeddings[1] # last.embeddings[2]
    /\ HasEntry(2)
    /\ last.metadata_list.items[1] # last.metadata_list.items[2]

\* C15: abuild_from_list with the same text at positions i < j, both with
\* metadata and j the last position of the text, leaves exactly one entry for
\* the text, with embedding j and metadata j.
C15_DuplicateLastWins ==
    Built =>
        \A i, j \in DOMAIN last.list_of_text :
            (/\ i < j
             /\ last.list_of_text[i] = last.list_of_text[j]
             /\ \A l \in DOMAIN last.list_of_text :
                    l > j => last.list_of_text[l] # last.list_of_text[j]
             /\ HasEntry(j))
            => LET text == last.list_of_text[j]
               IN  /\ Cardinality({n \in DOMAIN vectors : vectors[n].key = text}) = 1
                   /\ Cardinality({n \in DOMAIN metadata : metadata[n].key = text}) = 1
                   /\ DictGet(vectors, text) = last.embeddings[j]
                   /\ StoredOrEmpty(text) = last.metadata_list.items[j]

\* a build of the same text twice, with two different embeddings and two
\* different mappings, has returned
C15_Witness ==
    /\ Built
    /\ Len(last.list_of_text) = 2
    /\ last.list_of_text[1] = last.list_of_text[2]
    /\ last.embeddings[1] # last.embeddings[2]
    /\ HasEntry(2)
    /\ last.metadata_list.items[1] # last.metadata_list.items[2]


\* C16: abuild_from_list with metadata_list absent, empty or shorter than the
\* texts inserts every text without an entry of its own with no metadata: its
\* vector is stored, and when no position of the text has an entry the
\* metadata entry of the key is as before the insertion, none (get_metadata
\* is the empty mapping) for a key new to the store.
C16_MissingEntriesNoMetadata ==
    [][(last'.op = "abuild_from_list" /\ last'.err = "None") =>
          LET texts == last'.list_of_text
              NoEntry(l) == ~(/\ last'.metadata_list.t = "list"
                              /\ l <= Len(last'.metadata_list.items))
          IN  \A i \in DOMAIN texts :
                  NoEntry(i) =>
                      /\ DictHas(vectors', texts[i])
                      /\ (\A l \in DOMAIN texts : texts[l] = texts[i] => NoEntry(l)) =>
                             /\ MdEntry(metadata', heap', texts[i]) =
                                    MdEntry(metadata, heap, texts[i])
                             /\ ~DictHas(vectors, texts[i]) =>
                                    MdEntry(metadata', heap', texts[i]) = PyNone]_vars

\* a build of two distinct texts with one mapping has returned: the first
\* text has it, the second is stored with no metadata entry
C16_Witness ==
    /\ Built
    /\ Len(last.list_of_text) = 2
    /\ Distinct(last.list_of_text)
    /\ HasEntry(1)
    /\ ~HasEntry(2)
    /\ DictHas(metadata, last.list_of_text[1])
    /\ DictHas(vectors, last.list_of_text[2])
    /\ ~DictHas(metadata, last.list_of_text[2])


\* the entries of self.metadata with the contents of their mappings
Stored(md, h) == [i \in DOMAIN md |-> [key |-> md[i].key, val |-> h[md[i].val]]]

\* C17: abuild_from_list is all or nothing.  A step of it that is not its
\* return (the call up to the await, a failure or cancellation of the
\* provider call) leaves the vectors and the metadata as they are, and the
\* failure of the provider is the error of the call, which is over; its
\* return inserts every text of the batch in the one step, so that no state
\* between two steps holds a part of a batch.
C17_AllOrNothing ==
    [][last'.op = "abuild_from_list" =>
          IF last'.err = "None"
          THEN /\ task.pc = "awaiting"
               /\ task'.pc = "idle"
               /\ \A i \in DOMAIN task.list_of_text :
                      DictHas(vectors', task.list_of_text[i])
          ELSE /\ vectors' = vectors
               /\ metadata' = metadata
               /\ Stored(metadata', heap') = Stored(metadata, heap)
               /\ IF task.pc = "awaiting"
                  THEN last'.err \in ProviderErrors /\ task'.pc = "idle"
                  ELSE last'.err \in {"await", "ValueError"}]_vars

\* the provider call of a build has been cancelled, and the store holds the
\* one key, with metadata, that it held
C17_Witness ==
    /\ last.op = "abuild_from_list"
    /\ last.err = "CancelledError"
    /\ task.pc = "idle"
    /\ Len(vectors) = 1
    /\ Len(metadata) = 1


\* C18: one abuild_from_list call makes exactly one call of the provider, of
\* async_get_embeddings with the whole list of texts in input order: the step
\* up to the await makes it, and the step that ends the call, with the
\* provider's answer or its failure, makes none and leaves no call pending
\* (no call per text, no retry).  One search_by_text call makes exactly one
\* call, of get_embedding with the query text.
C18_OneProviderCall ==
    [][/\ (last'.op = "abuild_from_list" /\ embedding_model # "None") =>
             IF task.pc = "idle"
             THEN /\ last'.calls =
                        <<ProviderCall("async_get_embeddings", last'.list_of_text)>>
                  /\ task'.pc = "awaiting"
                  /\ task'.list_of_text = last'.list_of_text
             ELSE /\ last'.calls = <<>>
                  /\ task'.pc = "idle"
       /\ (last'.op = "search_by_text" /\ embedding_model # "None") =>
             last'.calls = <<ProviderCall("get_embedding", last'.query_text)>>]_vars

\* a build of two texts has called the provider and awaits its answer
C18_Witness ==
    /\ last.op = "abuild_from_list"
    /\ last.err = "await"
    /\ task.pc = "awaiting"
    /\ Len(last.list_of_text) = 2
    /\ Len(last.calls) = 1


(***************************************************************************)
(* Properties of search_by_text (SpecText).                                *)
(***************************************************************************)
\* C19: search_by_text with return_as_text returns exactly the keys of the
\* result of search for the embedded query, the same k and the same
\* include_metadata, in the same order and with nothing else; without the
\* flag it returns that result of search unchanged.
C19_ReturnAsText ==
    (last.op = "search_by_text" /\ last.err = "None") =>
        LET results == search(Store, last.query_vector, last.k, last.include_metadata)
        IN  /\ Len(last.result) = Len(results)
            /\ \A i \in DOMAIN results :
                   IF last.return_as_text
                   THEN /\ last.result[i] = results[i].key
                        /\ last.result[i] \in DictKeys(vectors)
                   ELSE last.result[i] = results[i]

\* search_by_text with return_as_text and include_metadata has returned two
\* keys of different scores, the second one with metadata
C19_Witness ==
    /\ last.op = "search_by_text"
    /\ last.err = "None"
    /\ last.return_as_text
    /\ last.include_metadata
    /\ Len(last.result) = 2
    /\ ScoreLT(cosine_similarity(last.query_vector, DictGet(vectors, last.result[2])),
               cosine_similarity(last.query_vector, DictGet(vectors, last.result[1])))
    /\ DictHas(metadata, last.result[2])


(***************************************************************************)
(* Growth of the store (Spec).                                             *)
(***************************************************************************)
\* C20: the store only grows: no step removes a key, so a key that has a
\* vector has one in every later state, and the number of entries never
\* decreases.
C20_StoreOnlyGrows ==
    [][/\ \A k \in DictKeys(vectors) : DictHas(vectors', k)
       /\ Len(vectors') >= Len(vectors)]_vars

\* a build of one text has returned into a store that holds two keys
C20_Witness ==
    /\ Built
    /\ Len(last.list_of_text) = 1
    /\ Len(vectors) = 2


(***************************************************************************)
(* The value abuild_from_list returns (SpecBuild).                         *)
(***************************************************************************)
\* C21: an abuild_from_list call that succeeds returns self, the store it was
\* called on and has inserted the batch into, so that the store returned
\* holds the batch and every entry the store held before the return.
C21_ReturnsSelf ==
    [][(last'.op = "abuild_from_list" /\ last'.err = "None") =>
          /\ last'.result = "self"
          /\ \A k \in DictKeys(vectors) : DictHas(vectors', k)
          /\ \A i \in DOMAIN last'.list_of_text :
                 DictHas(vectors', last'.list_of_text[i])]_vars

\* a build of one text has returned self, which holds that text and the key,
\* with its vector, that was inserted before
C21_Witness ==
    /\ Built
    /\ last.result = "self"
    /\ last.list_of_text = <<"b">>
    /\ Len(vectors) = 2
    /\ DictGet(vectors, "a") = <<1, 1>>


(***************************************************************************)
(* insert_with_metadata (SpecFilter).                                      *)
(***************************************************************************)
\* C22: insert_with_metadata(key, vector, **fields) makes the metadata of key
\* exactly the fields given, in a mapping of its own, whatever the metadata of
\* key were: with no fields, a key that had metadata is left with the empty
\* mapping.  The vector of key is the vector given.
C22_KwargsReplace ==
    [][last'.op = "insert_with_metadata" =>
          /\ DictGet(vectors', last'.key) = last'.vector
          /\ MdEntry(metadata', heap', last'.key) = [t |-> "dict", c |-> last'.metadata]
          /\ \A i \in DOMAIN metadata' :
                 metadata'[i].key # last'.key =>
                     metadata'[i].val # DictGet(metadata', last'.key)]_vars

\* insert_with_metadata without fields has left a key that had fields of
\* metadata with the empty mapping
C22_Witness ==
    /\ last.op = "insert_with_metadata"
    /\ last.metadata = EmptyDict
    /\ last.had_metadata
    /\ DictHas(metadata, last.key)
    /\ MetaOf(metadata, heap, last.key) = EmptyDict


(***************************************************************************)
(* Metadata belong to vectors (Spec).                                      *)
(***************************************************************************)
\* C23: in every state reached through insert, insert_with_metadata,
\* update_metadata and abuild_from_list, every key with a metadata entry has
\* a vector entry.
C23_MetadataKeysHaveVectors == DictKeys(metadata) \subseteq DictKeys(vectors)

\* update_metadata has given metadata to the one of two stored keys that has
\* a metadata entry
C23_Witness ==
    /\ last.op = "update_metadata"
    /\ last.err = "None"
    /\ Len(vectors) = 2
    /\ Len(metadata) = 1
    /\ DictHas(metadata, last.key)


(***************************************************************************)
(* The reads change nothing (SpecReadOnly).                                *)
(***************************************************************************)
Reads == {"search", "search_by_text", "get_metadata", "retrieve_from_key",
          "filter_by_metadata"}

\* C24: search, search_by_text, get_metadata, retrieve_from_key and
\* filter_by_metadata leave the store as it is for every argument, also a key
\* that is unknown or has no metadata: no entry is added to self.vectors or
\* to self.metadata and no mapping changes.
C24_ReadsChangeNothing ==
    [][last'.op \in Reads => UNCHANGED <<vectors, metadata, heap>>]_vars

\* get_metadata of a key that has a vector and no metadata has left the key
\* without a metadata entry
C24_Witness ==
    /\ last.op = "get_metadata"
    /\ DictHas(vectors, last.key)
    /\ ~DictHas(metadata, last.key)
    /\ last.result = EmptyDict

(***************************************************************************)
(* The frame of update_metadata (Spec).                                    *)
(***************************************************************************)
\* C25: update_metadata(key, partial) changes nothing but the metadata of
\* key: the vectors of all keys and the metadata of every other key are as
\* before, also when several keys were inserted with one and the same
\* metadata mapping.
C25_UpdateChangesOnlyKey ==
    [][(last'.op = "update_metadata" /\ last'.err = "None") =>
          /\ vectors' = vectors
          /\ \A k \in DictKeys(vectors) \ {last'.key} :
                 MdEntry(metadata', heap', k) = MdEntry(metadata, heap, k)]_vars

(***************************************************************************)
(* The tie-break order of search under re-insertion (SpecSearch).          *)
(***************************************************************************)
KeySeq(d) == [i \in DOMAIN d |-> d[i].key]

CeilDiv(n, d) == (n + d - 1) \div d

\* C30: split(text), with step = chunk_size - chunk_overlap, returns
\* ceil(len(text) / step) chunks, the j-th being
\* text[j*step : j*step + chunk_size]; every chunk is non-empty and at most
\* chunk_size long, every character of text lies in some chunk, consecutive
\* chunks start step apart, and the empty text yields no chunks.
C30_Split ==
    splitter # PyNone =>
        LET step == splitter.chunk_size - splitter.chunk_overlap
            n == Len(split_text)
        IN  /\ step > 0
            /\ Len(chunks) = CeilDiv(n, step)
            /\ \A j \in DOMAIN chunks :
                   /\ chunks[j] = PySlice(split_text, (j - 1) * step,
                                          (j - 1) * step + splitter.chunk_size)
                   /\ chunks[j] # <<>>
                   /\ Len(chunks[j]) <= splitter.chunk_size
            /\ \A p \in 1..n :
                   \E j \in DOMAIN chunks :
                       /\ (j - 1) * step < p
                       /\ p <= (j - 1) * step + Len(chunks[j])
            /\ n = 0 => chunks = <<>>

\* C30 for the splitters whose overlap is not negative
C30_SplitNonNegativeOverlap ==
    (splitter # PyNone /\ splitter.chunk_overlap >= 0) => C30_Split

(***************************************************************************)
(* The Flask RAG app (SpecApp).                                            *)
(***************************************************************************)
\* C27: an /upload request that ends in an error response leaves the globals
\* vector_db and pdf_text_chunks as they were before the request, so /status
\* and /chat answer as before the failed upload.
C27_FailedUploadKeepsState ==
    [][(response'.route = "/upload" /\ response'.status >= 400) =>
          /\ vector_db' = vector_db
          /\ pdf_text_chunks' = pdf_text_chunks]_vars

(***************************************************************************)
(* The LangGraph agent (SpecAgent).                                        *)
(***************************************************************************)
InBelt(name) == \E i \in DOMAIN get_tool_belt(APIKeys).value :
                    get_tool_belt(APIKeys).value[i] = name

\* C28: call_tools answers every tool call: the action node does not raise,
\* and it adds exactly one ToolMessage per tool call of the last message, in
\* the same order, each with the id of its call; the message is a result or
\* the error of the tool when the tool is in the tool belt, and says that the
\* tool was not found when it is not.
C28_OneToolMessagePerCall ==
    [][node = "action" =>
          LET tool_calls == messages[Len(messages)].tool_calls
              n == Len(messages)
          IN  /\ node' = "agent"
              /\ Len(messages') = n + Len(tool_calls)
              /\ SubSeq(messages', 1, n) = messages
              /\ \A i \in DOMAIN tool_calls :
                     /\ messages'[n + i].type = "tool"
                     /\ messages'[n + i].tool_call_id = tool_calls[i].id
                     /\ messages'[n + i].content.tool = tool_calls[i].name
                     /\ (messages'[n + i].content.kind = "not found")
                            <=> ~InBelt(tool_calls[i].name)]_vars

\* the action node has answered two calls with different ids: the first of a
\* tool that raised, the second of a tool that is not in the tool belt
C28_Witness ==
    /\ node = "agent"
    /\ Len(messages) = 4
    /\ messages[2].tool_calls = <<Arxiv("call_2"), Calculator("call_1")>>
    /\ messages[3] = ToolMessage([kind |-> "error", tool |-> "arxiv"], "call_2")
    /\ messages[4] = ToolMessage([kind |-> "not found", tool |-> "calculator"], "call_1")

HasToolCalls(m) == "tool_calls" \in DOMAIN m /\ m.tool_calls # <<>>

\* C29: a run starts at the agent node; after an agent step the action node
\* runs iff the latest message has at least one tool call, otherwise the run
\* ends; after an action step the agent node runs; a run ends only directly
\* after an agent step whose message has no tool calls.
C29_Routing ==
    [][/\ node = "idle" => node' = "agent"
       /\ (node = "agent" /\ node' # "error") =>
              /\ messages' # messages
              /\ node' = "action" <=> HasToolCalls(messages'[Len(messages')])
              /\ node' = END <=> ~HasToolCalls(messages'[Len(messages')])
       /\ (node = "action" /\ node' # "error") => node' = "agent"
       /\ node' = END =>
              /\ node = "agent"
              /\ messages'[Len(messages')].type = "ai"
              /\ ~HasToolCalls(messages'[Len(messages')])]_vars

\* a run has ended after two agent steps with an action step in between
C29_Witness ==
    /\ node = END
    /\ Len(messages) = 4
    /\ messages[2].tool_calls = <<Wikipedia("call_1")>>
    /\ messages[3].type = "tool"
    /\ messages[4] = AIMessage(<<>>)

====
